---- MODULE Spec2Model ----
(***************************************************************************)
(* Model of the 30-seconds card generator (fvanperlo/30-seconds).          *)
(*                                                                         *)
(* The repository holds three revisions of the App component and two of    *)
(* the term service:                                                       *)
(*   "manual" : src/App.tsx 1-405          (typed terms only)              *)
(*   "topic"  : src/App.tsx 406-840 with the service of                    *)
(*              src/components/CardPreview.tsx 67-163 (topic, cycling)     *)
(*   "aiFill" : src/unnamed/part_000 with the service of                   *)
(*              src/components/CardPreview.tsx 165-231 (AI auto fill)      *)
(* The variable revision says which one runs; it never changes.            *)
(*                                                                         *)
(* A text is a sequence of one-character strings, a term likewise, so that *)
(* splitting, trimming and lower-casing are computed and not assumed.      *)
(***************************************************************************)
EXTENDS Integers, Sequences, FiniteSets, Bags, TLC

VARIABLES revision, appState, categoryLabel, topic, manualText, cardCount,
          termsPerCard, useAiFill, cards, error, pc, att,
          cardTitle, reads, exports, saved

vars == <<revision, appState, categoryLabel, topic, manualText, cardCount,
          termsPerCard, useAiFill, cards, error, pc, att,
          cardTitle, reads, exports, saved>>

\* the title of the cards, the file reads under way, the PDF exports under
\* way and the document saved last
extras == <<cardTitle, reads, exports, saved>>

(***************************************************************************)
(* Bounds of the model.                                                    *)
(***************************************************************************)
\* the card-count slider is followed for this many steps from its minimum
MaxCardSteps == 1
\* the terms-per-card slider is followed up to this value
MaxTermsPerCard == 3
\* the shuffle is followed over the rotations by 0..MaxShift and the reversal
MaxShift == 0
\* the provider may return up to this many terms more than were missing
MaxSurplus == 0
\* the raw texts of the resolver's specification have up to this many characters
MaxTextLen == 3
\* up to this many file reads are under way at a time
MaxReads == 1
\* up to this many PDF exports are under way at a time
MaxExports == 1

(***************************************************************************)
(* Program constants.                                                      *)
(***************************************************************************)
DEFAULT_CARD_COUNT == 8
DEFAULT_TERMS_PER_CARD == 5
CardCountMin == 4
CardCountStep == 4
CardCountMax == 40
TermsPerCardMin == 3
TermsPerCardMax == 8

\* generatePDF's configuration
cardsPerPage == 8
marginLeft == 10
marginTop == 20
cardW == 90
cardH == 50
gapX == 10
gapY == 10

\* new jsPDF('p', 'mm', 'a4'): a page of 210 mm by 297 mm
PageWidthMM == 210
PageHeightMM == 297

Revisions == {"manual", "topic", "aiFill"}

(***************************************************************************)
(* Characters, terms and texts.                                            *)
(***************************************************************************)
IsDelim(c) == c \in {",", "\n"}

\* String.prototype.trim strips white space and line terminators
IsSpace(c) == c \in {" ", "\n"}

\* String.prototype.toLowerCase, one character
LowerChar(c) ==
  CASE c = "A" -> "a"
    [] c = "B" -> "b"
    [] c = "P" -> "p"
    [] c = "Q" -> "q"
    [] OTHER -> c

ToLowerCase(t) == [i \in 1..Len(t) |-> LowerChar(t[i])]

Indices(s) == [i \in 1..Len(s) |-> i]

\* String.prototype.trim: from the first to the last character that is no
\* white space
Trim(s) ==
  LET kept == SelectSeq(Indices(s), LAMBDA i : ~IsSpace(s[i]))
  IN IF kept = <<>> THEN <<>> ELSE SubSeq(s, kept[1], kept[Len(kept)])

\* String.prototype.split(/[\n,]+/): the maximal runs of characters that are
\* no delimiter, in order, with an empty piece in front when the text starts
\* with a delimiter and one behind when it ends with one; "" gives [""]
Split(s) ==
  LET starts == SelectSeq(Indices(s), LAMBDA i :
                  ~IsDelim(s[i]) /\ (i = 1 \/ IsDelim(s[i - 1])))
      ends == SelectSeq(Indices(s), LAMBDA j :
                  ~IsDelim(s[j]) /\ (j = Len(s) \/ IsDelim(s[j + 1])))
      runs == [k \in 1..Len(starts) |-> SubSeq(s, starts[k], ends[k])]
  IN IF s = <<>> THEN << <<>> >>
     ELSE (IF IsDelim(s[1]) THEN << <<>> >> ELSE <<>>)
          \o runs
          \o (IF IsDelim(s[Len(s)]) THEN << <<>> >> ELSE <<>>)

MapTrim(ps) == [i \in 1..Len(ps) |-> Trim(ps[i])]

FilterNonEmpty(ps) == SelectSeq(ps, LAMBDA p : Len(p) > 0)

\* step 1 without the filter on empty pieces
ParseTermsUnfiltered(text) ==
  IF Trim(text) # <<>> THEN MapTrim(Split(text)) ELSE <<>>

\* step 1 without the trimming of the pieces
ParseTermsUntrimmed(text) ==
  IF Trim(text) # <<>> THEN FilterNonEmpty(Split(text)) ELSE <<>>

\* step 1 followed by the removal of repeated terms
ParseTermsDeduplicated(text) ==
  LET ts == IF Trim(text) # <<>> THEN FilterNonEmpty(MapTrim(Split(text))) ELSE <<>>
      firsts == SelectSeq([i \in 1..Len(ts) |-> i],
                          LAMBDA i : \A j \in 1..(i - 1) : ts[j] # ts[i])
  IN [k \in 1..Len(firsts) |-> ts[firsts[k]]]

\* step 1 of processInputAndGenerate
ParseTerms(text) ==
  IF Trim(text) # <<>> THEN FilterNonEmpty(MapTrim(Split(text))) ELSE <<>>

(***************************************************************************)
(* Inputs: the texts a user types or uploads and the terms the provider    *)
(* answers with.                                                           *)
(***************************************************************************)
Letters == <<"a", "b", "c", "d", "e", "f", "g", "h", "i">>

FreshLetters == <<"p", "q", "r", "s", "t", "u", "v", "w", "x">>

\* the k-th typed term, k >= 1: two letters, pairwise distinct also ignoring case
Term(k) == <<Letters[((k - 1) \div Len(Letters)) + 1],
             Letters[((k - 1) % Len(Letters)) + 1]>>

\* the k-th term the provider invents, different from every typed term
FreshTerm(k) == <<FreshLetters[((k - 1) \div Len(FreshLetters)) + 1],
                  FreshLetters[((k - 1) % Len(FreshLetters)) + 1]>>

Fresh(n) == [k \in 1..n |-> FreshTerm(k)]

UpperChar(c) ==
  CASE c = "a" -> "A"
    [] c = "b" -> "B"
    [] c = "p" -> "P"
    [] c = "q" -> "Q"
    [] OTHER -> c

\* the same term in another case
CaseVariant(t) == [i \in 1..Len(t) |-> UpperChar(t[i])]

\* the separators a list is typed with, two characters each
Separator(k) ==
  CASE k % 4 = 0 -> <<",", " ">>
    [] k % 4 = 1 -> <<"\n", " ">>
    [] k % 4 = 2 -> <<",", "\n">>
    [] OTHER -> <<" ", ",">>

\* the text of the terms 1..n: Term(1), then Separator(k) and Term(k) for
\* k = 2..n
ListText(n) ==
  [p \in 1..(4 * n - 2) |->
     IF p <= 2 THEN Term(1)[p]
     ELSE LET k == ((p - 3) \div 4) + 2
              r == (p - 3) % 4
          IN IF r < 2 THEN Separator(k)[r + 1] ELSE Term(k)[r - 1]]

\* how many terms the typed list has: the demand of the smallest deck with
\* the default terms per card, which is more than the smallest demand of the
\* sliders and less than the default demand
PoolSizes == {CardCountMin * DEFAULT_TERMS_PER_CARD}

\* values of the textarea (onChange) and contents of an uploaded file: no
\* text, white space and delimiters only, a term typed twice before another
\* one, and the list
Texts ==
  { <<>>,
    <<" ", ",", "\n", " ">>,
    <<" ", "a", " ", ",", ",", "\n", "a", ",", "b", ",">> }
  \cup { ListText(n) : n \in PoolSizes }

\* the characters of a raw text: letters, white space and the delimiters
Alphabet == {"a", "b", " ", ",", "\n"}

\* every text of up to MaxTextLen characters
RawTexts == UNION { [1..n -> Alphabet] : n \in 0..MaxTextLen }

CategoryLabels == {"", "Sport"}

Titles == {"30 Seconds", ""}

Topics == {"", "Dieren"}

\* a slider that starts at 0
CardCountsFromZero ==
  { c \in 0..CardCountMax :
      /\ c % CardCountStep = 0
      /\ c <= CardCountMin + (MaxCardSteps - 1) * CardCountStep }

CardCounts ==
  { c \in CardCountMin..CardCountMax :
      /\ (c - CardCountMin) % CardCountStep = 0
      /\ c <= CardCountMin + (MaxCardSteps - 1) * CardCountStep }

TermsPerCardValues ==
  { t \in TermsPerCardMin..TermsPerCardMax : t <= MaxTermsPerCard }

Max(a, b) == IF a >= b THEN a ELSE b

Min(a, b) == IF a <= b THEN a ELSE b

\* what the call of ai.models.generateContent can come to: it throws (network
\* failure, or JSON.parse throws), the response has no text, or the text
\* parses to a list of strings
ListOutcome(ts) == [kind |-> "list", terms |-> ts]

Threw == [kind |-> "threw", terms |-> <<>>]

NoText == [kind |-> "noText", terms |-> <<>>]

NoAnswer == [kind |-> "none", terms |-> <<>>]

\* answers to a request for `missing` terms more than `existing`: one too
\* few, enough, a surplus, and enough after an existing term as typed and in
\* another case
ExpandOutcomes(existing, missing) ==
  {Threw, NoText}
  \cup { ListOutcome(Fresh(n)) : n \in (missing - 1)..(missing + MaxSurplus) }
  \cup { ListOutcome(<<existing[1], CaseVariant(existing[1])>> \o Fresh(missing)) }

\* answers to a request for `total` terms on a topic
GenerateOutcomes(total) ==
  {Threw, NoText}
  \cup { ListOutcome(Fresh(n)) : n \in (total - 1)..(total + MaxSurplus) }

(***************************************************************************)
(* The term service.                                                       *)
(***************************************************************************)
Includes(seq, t) == \E i \in 1..Len(seq) : seq[i] = t

\* expandTermList of the topic revision: does it reach the provider?
ExpandCallsProviderTopic(existing, neededCount) ==
  ~(neededCount - Len(existing) <= 0)

\* expandTermList of the topic revision, from the provider's answer on
ExpandTermListTopic(existing, outcome) ==
  IF outcome.kind = "list"
  THEN existing \o SelectSeq(outcome.terms, LAMBDA t : ~Includes(existing, t))
  ELSE existing

\* expandTermList of the aiFill revision: does it reach the provider?
ExpandCallsProviderAiFill(existing, neededTotal) ==
  ~(neededTotal - Len(existing) <= 0 \/ Len(existing) = 0)

\* an expandTermList that returns nothing when the provider fails
ExpandTermListAiFillDropsPool(existing, outcome) ==
  IF outcome.kind = "list"
  THEN LET currentSet == { ToLowerCase(existing[i]) : i \in 1..Len(existing) }
       IN existing \o
          SelectSeq(outcome.terms, LAMBDA t : ToLowerCase(t) \notin currentSet)
  ELSE <<>>

\* an expandTermList that puts the new terms in front
ExpandTermListAiFillNewFirst(existing, outcome) ==
  IF outcome.kind = "list"
  THEN LET currentSet == { ToLowerCase(existing[i]) : i \in 1..Len(existing) }
       IN SelectSeq(outcome.terms, LAMBDA t : ToLowerCase(t) \notin currentSet)
          \o existing
  ELSE existing

\* expandTermList of the aiFill revision, from the provider's answer on
ExpandTermListAiFill(existing, outcome) ==
  IF outcome.kind = "list"
  THEN LET currentSet == { ToLowerCase(existing[i]) : i \in 1..Len(existing) }
       IN existing \o
          SelectSeq(outcome.terms, LAMBDA t : ToLowerCase(t) \notin currentSet)
  ELSE existing

(***************************************************************************)
(* The deck assembler.                                                     *)
(***************************************************************************)
Placeholder == <<"?", "?", "?">>

Reverse(s) == [i \in 1..Len(s) |-> s[Len(s) + 1 - i]]

Rotate(s, r) == [i \in 1..Len(s) |-> s[((i - 1 + r) % Len(s)) + 1]]

\* a shuffle that loses the last term
ShuffleOutcomesLossy(terms) ==
  IF terms = <<>> THEN {<<>>}
  ELSE { SubSeq(Rotate(terms, r), 1, Len(terms) - 1) : r \in 0..MaxShift }

\* [...terms].sort(() => 0.5 - Math.random()): some rearrangement of a copy of
\* the terms; the model follows the rotations by 0..MaxShift and the reversal
ShuffleOutcomes(terms) ==
  IF terms = <<>> THEN {<<>>}
  ELSE { Rotate(terms, r) : r \in 0..MaxShift } \cup { Reverse(terms) }

\* Array.prototype.slice(start, end), indices from 0, end excluded and clamped
Slice(s, start, end) == SubSeq(s, start + 1, Min(end, Len(s)))

\* while (cardTerms.length < termsPerCard) cardTerms.push("???")
RECURSIVE Pad(_, _)
Pad(cardTerms, n) ==
  IF Len(cardTerms) < n THEN Pad(Append(cardTerms, Placeholder), n) ELSE cardTerms

\* the card loop stopping one card early
CreateCardsOneShort(shuffled, count, n, category) ==
  [k \in 1..(count - 1) |->
     [id |-> k - 1,
      category |-> category,
      terms |-> SubSeq(shuffled, (k - 1) * n + 1, (k - 1) * n + n)]]

\* a card loop whose chunks start one term early from the second card on
CreateCardsOverlapping(shuffled, count, n, category) ==
  [k \in 1..count |->
     [id |-> k - 1,
      category |-> category,
      terms |-> Pad(Slice(shuffled, (k - 1) * (n - 1), (k - 1) * (n - 1) + n), n)]]

\* a card loop that deals from the end of the shuffled terms
CreateCardsFromTail(shuffled, count, n, category) ==
  LET skip == Max(Len(shuffled) - count * n, 0)
  IN [k \in 1..count |->
       [id |-> k - 1,
        category |-> category,
        terms |-> Pad(Slice(shuffled, skip + (k - 1) * n, skip + (k - 1) * n + n), n)]]

\* a card loop that deals the first chunk to every card
CreateCardsSameChunk(shuffled, count, n, category) ==
  [k \in 1..count |->
     [id |-> k - 1, category |-> category, terms |-> Pad(Slice(shuffled, 0, n), n)]]

\* the card loop: card i takes shuffled[i*n, i*n + n), padded to n terms;
\* the id `card-${i}` is kept as the number i
CreateCards(shuffled, count, n, category) ==
  [k \in 1..count |->
     [id |-> k - 1,
      category |-> category,
      terms |-> Pad(Slice(shuffled, (k - 1) * n, (k - 1) * n + n), n)]]

\* a category that prefers the topic to the label
ResolveCategoryTopicFirst(label, subject) ==
  IF subject # "" THEN subject
  ELSE IF label # "" THEN label
  ELSE "Gemengd"

\* categoryLabel || 'Gemengd', and in the topic revision
\* categoryLabel || topic || 'Gemengd'
ResolveCategory(label, subject) ==
  IF label # "" THEN label
  ELSE IF subject # "" THEN subject
  ELSE "Gemengd"

\* a cycling that stops after the first copy
CycleTermsOnce(terms, neededTerms) == terms

\* a cycling that appends the terms back to front
RECURSIVE CycleFromReversed(_, _, _)
CycleFromReversed(extendedTerms, terms, neededTerms) ==
  IF Len(extendedTerms) < neededTerms
  THEN CycleFromReversed(extendedTerms \o Reverse(terms), terms, neededTerms)
  ELSE extendedTerms

\* let extendedTerms = [...terms]; while (extendedTerms.length < neededTerms)
\* extendedTerms = [...extendedTerms, ...terms]
RECURSIVE CycleFrom(_, _, _)
CycleFrom(extendedTerms, terms, neededTerms) ==
  IF Len(extendedTerms) < neededTerms
  THEN CycleFrom(extendedTerms \o terms, terms, neededTerms)
  ELSE extendedTerms

CycleTerms(terms, neededTerms) == CycleFrom(terms, terms, neededTerms)

(***************************************************************************)
(* Errors: an Error is its message template and the numbers put into it.   *)
(***************************************************************************)
Err(text, args) == [text |-> text, args |-> args]

Null == <<>>

ManualEmptyError == Err("Voer een lijst met begrippen in om te beginnen.", <<>>)

ManualTooFewError(count, neededTerms, n, have) ==
  Err("Je hebt te weinig begrippen. Voor {} kaartjes heb je {} woorden nodig ({} per kaart). Je hebt er nu {}. Voeg meer woorden toe of verminder het aantal kaartjes.",
      <<count, neededTerms, n, have>>)

TopicEmptyError == Err("Voer begrippen in of kies een onderwerp.", <<>>)

GenerateFailedError == Err("Kon geen begrippen genereren. Probeer het opnieuw.", <<>>)

AiFillEmptyError == Err("Voer tenminste een begrip in om te beginnen.", <<>>)

\* a message that reports the shortfall in place of the pool's length
AiFillTooFewErrorShortfall(neededTerms, have, aiFill) ==
  Err(IF aiFill
      THEN "Te weinig begrippen. Nodig: {}. Je hebt er: {}. De AI kon niet genoeg aanvullen."
      ELSE "Te weinig begrippen. Nodig: {}. Je hebt er: {}. Zet AI Auto-aanvullen aan of voeg meer woorden toe.",
      <<neededTerms, neededTerms - have>>)

AiFillTooFewError(neededTerms, have, aiFill) ==
  Err(IF aiFill
      THEN "Te weinig begrippen. Nodig: {}. Je hebt er: {}. De AI kon niet genoeg aanvullen."
      ELSE "Te weinig begrippen. Nodig: {}. Je hebt er: {}. Zet AI Auto-aanvullen aan of voeg meer woorden toe.",
      <<neededTerms, have>>)

\* err.message || "Er is iets fout gegaan."
ShownMessage(err) ==
  IF err.text = "" THEN Err("Er is iets fout gegaan.", <<>>) ELSE err

(***************************************************************************)
(* One generation attempt: the values its closure holds (text .. topic),   *)
(* its local `terms`, and a record of what it did: the terms as parsed,    *)
(* the shuffled copy, the calls made to the provider, the provider's       *)
(* answer, how the attempt ended, and whether another attempt was under    *)
(* way when it started.                                                    *)
(***************************************************************************)
NoAttempt ==
  [text |-> <<>>, cardCount |-> 0, termsPerCard |-> 0, useAiFill |-> FALSE,
   categoryLabel |-> "", topic |-> "", parsed |-> <<>>, terms |-> <<>>,
   shuffled |-> <<>>, calls |-> 0, answer |-> NoAnswer, result |-> "none",
   thrown |-> <<>>, overlaps |-> FALSE]

NewAttempt ==
  LET terms == ParseTerms(manualText)
  IN [NoAttempt EXCEPT !.text = manualText, !.cardCount = cardCount,
                       !.termsPerCard = termsPerCard, !.useAiFill = useAiFill,
                       !.categoryLabel = categoryLabel, !.topic = topic,
                       !.parsed = terms, !.terms = terms, !.result = "running",
                       !.overlaps = (att.result = "running")]

\* a demand that is one too high
NeededTermsOneMore(a) == a.cardCount * a.termsPerCard + 1

\* const neededTerms = cardCount * termsPerCard
NeededTerms(a) == a.cardCount * a.termsPerCard

Init ==
  /\ revision \in Revisions
  /\ appState = "INPUT"
  /\ categoryLabel = ""
  /\ topic = ""
  /\ manualText = <<>>
  /\ cardCount = DEFAULT_CARD_COUNT
  /\ termsPerCard = DEFAULT_TERMS_PER_CARD
  /\ useAiFill = (revision = "aiFill")
  /\ cards = <<>>
  /\ error = Null
  /\ pc = "idle"
  /\ att = NoAttempt
  /\ cardTitle = "30 Seconds"
  /\ reads = 0
  /\ exports = EmptyBag
  /\ saved = <<>>

inputs == <<categoryLabel, topic, manualText, cardCount, termsPerCard, useAiFill>>

(***************************************************************************)
(* The ends of an attempt.                                                 *)
(***************************************************************************)
\* an end that stores the deck and leaves the loading view on
AssembleKeepsMode(a, terms) ==
  \E shuffled \in ShuffleOutcomes(terms) :
    /\ cards' = CreateCards(shuffled, a.cardCount, a.termsPerCard,
                            ResolveCategory(a.categoryLabel, a.topic))
    /\ appState' = "GENERATING"
    /\ pc' = "idle"
    /\ att' = [a EXCEPT !.terms = terms, !.shuffled = shuffled, !.result = "ok"]

\* steps "shuffle" and "create cards", setCards, setAppState(PREVIEW)
Assemble(a, terms) ==
  \E shuffled \in ShuffleOutcomes(terms) :
    /\ cards' = CreateCards(shuffled, a.cardCount, a.termsPerCard,
                            ResolveCategory(a.categoryLabel, a.topic))
    /\ appState' = "PREVIEW"
    /\ pc' = "idle"
    /\ att' = [a EXCEPT !.terms = terms, !.shuffled = shuffled, !.result = "ok"]

\* a catch block that reports the error and leaves the mode as it is
CatchKeepsMode(a, terms, err) ==
  /\ error' = <<ShownMessage(err)>>
  /\ appState' = "GENERATING"
  /\ pc' = "idle"
  /\ att' = [a EXCEPT !.terms = terms, !.result = "failed", !.thrown = <<err>>]
  /\ UNCHANGED cards

\* a catch block that shows the preview
CatchToPreview(a, terms, err) ==
  /\ error' = <<ShownMessage(err)>>
  /\ appState' = "PREVIEW"
  /\ pc' = "idle"
  /\ att' = [a EXCEPT !.terms = terms, !.result = "failed", !.thrown = <<err>>]
  /\ UNCHANGED cards

\* throw inside the try block, then the catch block
Catch(a, terms, err) ==
  /\ error' = <<ShownMessage(err)>>
  /\ appState' = "INPUT"
  /\ pc' = "idle"
  /\ att' = [a EXCEPT !.terms = terms, !.result = "failed", !.thrown = <<err>>]
  /\ UNCHANGED cards

\* a suspension with two calls of the provider under way
SuspendCallsTwice(a, at) ==
  /\ appState' = "GENERATING"
  /\ pc' = at
  /\ att' = [a EXCEPT !.calls = a.calls + 2]
  /\ UNCHANGED cards

\* the call of the provider is under way: the attempt is suspended at `await`
Suspend(a, at) ==
  /\ appState' = "GENERATING"
  /\ pc' = at
  /\ att' = [a EXCEPT !.calls = a.calls + 1]
  /\ UNCHANGED cards

(***************************************************************************)
(* Revision "manual": processInputAndGenerate of src/App.tsx 38-96.        *)
(***************************************************************************)
\* a click that leaves the old message
GenerateManualKeepsError ==
  /\ revision = "manual"
  /\ appState = "INPUT"
  /\ pc = "idle"
  /\ appState' = "GENERATING"
  /\ pc' = "delay"
  /\ att' = NewAttempt
  /\ UNCHANGED <<revision, inputs, cards, error>>
  /\ UNCHANGED extras

\* the click up to `await new Promise(resolve => setTimeout(resolve, 500))`
GenerateManual ==
  /\ revision = "manual"
  /\ appState = "INPUT"
  /\ pc = "idle"
  /\ error' = Null
  /\ appState' = "GENERATING"
  /\ pc' = "delay"
  /\ att' = NewAttempt
  /\ UNCHANGED <<revision, inputs, cards>>
  /\ UNCHANGED extras

\* the try block after the delay
DelayElapsed ==
  /\ revision = "manual"
  /\ pc = "delay"
  /\ LET terms == att.terms
         neededTerms == NeededTerms(att)
     IN IF Len(terms) = 0
        THEN Catch(att, terms, ManualEmptyError)
        ELSE IF Len(terms) < neededTerms
        THEN Catch(att, terms,
                   ManualTooFewError(att.cardCount, neededTerms,
                                     att.termsPerCard, Len(terms)))
        ELSE Assemble(att, terms) /\ UNCHANGED error
  /\ UNCHANGED <<revision, inputs>>
  /\ UNCHANGED extras

(***************************************************************************)
(* Revision "aiFill": processInputAndGenerate of src/unnamed/part_000.     *)
(***************************************************************************)
\* step 3, validation after the possible expansion, and what follows it;
\* `cleared` is the value of error when nothing is thrown
ValidateAiFill(a, terms, cleared) ==
  IF Len(terms) < NeededTerms(a)
  THEN Catch(a, terms, AiFillTooFewError(NeededTerms(a), Len(terms), a.useAiFill))
  ELSE Assemble(a, terms) /\ error' = cleared

\* a button that can be clicked in every mode
GenerateAiFillAnyMode ==
  /\ revision = "aiFill"
  /\ LET a == NewAttempt
         terms == a.terms
         neededTerms == NeededTerms(a)
     IN IF Len(terms) = 0
        THEN Catch(a, terms, AiFillEmptyError)
        ELSE IF Len(terms) < neededTerms /\ a.useAiFill
        THEN IF ExpandCallsProviderAiFill(terms, neededTerms)
             THEN Suspend(a, "awaitExpand") /\ error' = Null
             ELSE ValidateAiFill(a, terms, Null)
        ELSE ValidateAiFill(a, terms, Null)
  /\ UNCHANGED <<revision, inputs>>
  /\ UNCHANGED extras

\* the click on "Maak mijn kaartjes!", rendered in the input view only:
\* everything up to `await expandTermList(...)`, or to the end when the
\* service is not called
GenerateAiFill ==
  /\ revision = "aiFill"
  /\ appState = "INPUT"
  /\ pc = "idle"
  /\ LET a == NewAttempt
         terms == a.terms
         neededTerms == NeededTerms(a)
     IN IF Len(terms) = 0
        THEN Catch(a, terms, AiFillEmptyError)
        ELSE IF Len(terms) < neededTerms /\ a.useAiFill
        THEN IF ExpandCallsProviderAiFill(terms, neededTerms)
             THEN Suspend(a, "awaitExpand") /\ error' = Null
             ELSE ValidateAiFill(a, terms, Null)
        ELSE ValidateAiFill(a, terms, Null)
  /\ UNCHANGED <<revision, inputs>>
  /\ UNCHANGED extras

\* a continuation that reads the textarea again when the answer arrives
ExpandSettlesAiFillRereads ==
  /\ revision = "aiFill"
  /\ pc = "awaitExpand"
  /\ \E outcome \in ExpandOutcomes(att.terms, NeededTerms(att) - Len(att.terms)) :
       ValidateAiFill([att EXCEPT !.answer = outcome],
                      ExpandTermListAiFill(ParseTerms(manualText), outcome), error)
  /\ UNCHANGED <<revision, inputs>>
  /\ UNCHANGED extras

\* the provider's answer arrives: the rest of expandTermList, then the rest
\* of the try block
ExpandSettlesAiFill ==
  /\ revision = "aiFill"
  /\ pc = "awaitExpand"
  /\ \E outcome \in ExpandOutcomes(att.terms, NeededTerms(att) - Len(att.terms)) :
       ValidateAiFill([att EXCEPT !.answer = outcome],
                      ExpandTermListAiFill(att.terms, outcome), error)
  /\ UNCHANGED <<revision, inputs>>
  /\ UNCHANGED extras

(***************************************************************************)
(* Revision "topic": processInputAndGenerate of src/App.tsx 444-521.       *)
(***************************************************************************)
GenerateTopic ==
  /\ revision = "topic"
  /\ appState = "INPUT"
  /\ pc = "idle"
  /\ LET a == NewAttempt
         terms == a.terms
         neededTerms == NeededTerms(a)
     IN IF Len(terms) < neededTerms
        THEN IF a.topic = "" /\ Len(terms) = 0
             THEN Catch(a, terms, TopicEmptyError)
             ELSE IF a.topic # ""
             THEN IF Len(terms) > 0
                  THEN IF ExpandCallsProviderTopic(terms, neededTerms)
                       THEN Suspend(a, "awaitExpand") /\ error' = Null
                       ELSE Assemble(a, terms) /\ error' = Null
                  ELSE Suspend(a, "awaitGenerate") /\ error' = Null
             ELSE Assemble(a, CycleTerms(terms, neededTerms)) /\ error' = Null
        ELSE Assemble(a, terms) /\ error' = Null
  /\ UNCHANGED <<revision, inputs>>
  /\ UNCHANGED extras

\* the answer to expandTermList(terms, neededTerms, topic) arrives
ExpandSettlesTopic ==
  /\ revision = "topic"
  /\ pc = "awaitExpand"
  /\ \E outcome \in ExpandOutcomes(att.terms, NeededTerms(att) - Len(att.terms)) :
       Assemble([att EXCEPT !.answer = outcome],
                ExpandTermListTopic(att.terms, outcome))
  /\ UNCHANGED <<revision, inputs, error>>
  /\ UNCHANGED extras

\* the answer to generateTermsFromTopic(topic, cardCount) arrives: the catch
\* block of the service throws its own Error, an answer without text gives []
GenerateSettlesTopic ==
  /\ revision = "topic"
  /\ pc = "awaitGenerate"
  /\ \E outcome \in GenerateOutcomes(NeededTerms(att)) :
       LET a == [att EXCEPT !.answer = outcome]
       IN IF outcome.kind = "threw"
          THEN Catch(a, a.terms, GenerateFailedError)
          ELSE Assemble(a, outcome.terms) /\ UNCHANGED error
  /\ UNCHANGED <<revision, inputs>>
  /\ UNCHANGED extras

(***************************************************************************)
(* The controls.  The record of the last attempt lasts until the user's    *)
(* next action.                                                            *)
(***************************************************************************)
\* the textarea of the input view
SetManualText ==
  /\ appState = "INPUT"
  /\ \E text \in Texts : manualText' = text
  /\ att' = NoAttempt
  /\ UNCHANGED <<revision, appState, categoryLabel, topic, cardCount,
                 termsPerCard, useAiFill, cards, error, pc>>
  /\ UNCHANGED extras

\* a card-count slider that is also in the preview
SetCardCountAnyMode ==
  /\ appState \in {"INPUT", "PREVIEW"}
  /\ \E c \in CardCounts : cardCount' = c
  /\ att' = NoAttempt
  /\ UNCHANGED <<revision, appState, categoryLabel, topic, manualText,
                 termsPerCard, useAiFill, cards, error, pc>>
  /\ UNCHANGED extras

\* the range input min=4 max=40 step=4
SetCardCount ==
  /\ appState = "INPUT"
  /\ \E c \in CardCounts : cardCount' = c
  /\ att' = NoAttempt
  /\ UNCHANGED <<revision, appState, categoryLabel, topic, manualText,
                 termsPerCard, useAiFill, cards, error, pc>>
  /\ UNCHANGED extras

\* the range input min=3 max=8 step=1; the topic revision has none: it reads
\* the imported TERMS_PER_CARD, whose defining file is not among the sources,
\* and termsPerCard stays at DEFAULT_TERMS_PER_CARD there
SetTermsPerCard ==
  /\ revision # "topic"
  /\ appState = "INPUT"
  /\ \E t \in TermsPerCardValues : termsPerCard' = t
  /\ att' = NoAttempt
  /\ UNCHANGED <<revision, appState, categoryLabel, topic, manualText,
                 cardCount, useAiFill, cards, error, pc>>
  /\ UNCHANGED extras

\* the checkbox "AI Auto-aanvullen"
SetUseAiFill ==
  /\ revision = "aiFill"
  /\ appState = "INPUT"
  /\ useAiFill' = ~useAiFill
  /\ att' = NoAttempt
  /\ UNCHANGED <<revision, appState, categoryLabel, topic, manualText,
                 cardCount, termsPerCard, cards, error, pc>>
  /\ UNCHANGED extras

\* the topic field of the topic revision
SetTopic ==
  /\ revision = "topic"
  /\ appState = "INPUT"
  /\ \E t \in Topics : topic' = t
  /\ att' = NoAttempt
  /\ UNCHANGED <<revision, appState, categoryLabel, manualText, cardCount,
                 termsPerCard, useAiFill, cards, error, pc>>
  /\ UNCHANGED extras

\* the category field, in the input view and in the preview toolbar
SetCategoryLabel ==
  /\ appState \in {"INPUT", "PREVIEW"}
  /\ \E c \in CategoryLabels : categoryLabel' = c
  /\ att' = NoAttempt
  /\ UNCHANGED <<revision, appState, topic, manualText, cardCount,
                 termsPerCard, useAiFill, cards, error, pc>>
  /\ UNCHANGED extras

\* a button "Opnieuw" that throws the deck away
OpnieuwClearsDeck ==
  /\ appState = "PREVIEW"
  /\ appState' = "INPUT"
  /\ cards' = <<>>
  /\ att' = NoAttempt
  /\ UNCHANGED <<revision, inputs, error, pc>>
  /\ UNCHANGED extras

\* the button "Opnieuw" of the header
Opnieuw ==
  /\ appState = "PREVIEW"
  /\ appState' = "INPUT"
  /\ att' = NoAttempt
  /\ UNCHANGED <<revision, inputs, cards, error, pc>>
  /\ UNCHANGED extras

\* the title field, in the input view and in the preview toolbar
SetCardTitle ==
  /\ appState \in {"INPUT", "PREVIEW"}
  /\ \E t \in Titles : cardTitle' = t
  /\ att' = NoAttempt
  /\ UNCHANGED <<revision, appState, inputs, cards, error, pc, reads, exports, saved>>

(***************************************************************************)
(* File upload: handleFileUpload starts a FileReader, whose onload calls   *)
(* setManualText whenever the read completes.                              *)
(***************************************************************************)
\* the file input of the input view: a file is chosen and readAsText starts
HandleFileUpload ==
  /\ appState = "INPUT"
  /\ reads < MaxReads
  /\ reads' = reads + 1
  /\ att' = NoAttempt
  /\ UNCHANGED <<revision, appState, inputs, cards, error, pc, cardTitle, exports, saved>>

\* reader.onload, in whatever mode the application is by then: the file's
\* text replaces the textarea's; an attempt under way is not touched
FileLoaded ==
  /\ reads > 0
  /\ reads' = reads - 1
  /\ \E text \in Texts : manualText' = text
  /\ att' = IF att.result = "running" THEN att ELSE NoAttempt
  /\ UNCHANGED <<revision, appState, categoryLabel, topic, cardCount,
                 termsPerCard, useAiFill, cards, error, pc, cardTitle, exports, saved>>

\* the read fails: onload is never called
FileReadFails ==
  /\ reads > 0
  /\ reads' = reads - 1
  /\ UNCHANGED <<revision, appState, inputs, cards, error, pc, att, cardTitle,
                 exports, saved>>

(***************************************************************************)
(* generatePDF: one export is the jsPDF document built so far (its number  *)
(* of pages and the images placed), the index i of the element handed to   *)
(* html2canvas and the position computed for it.  The exports under way    *)
(* are a bag: two clicks give two exports that run independently.          *)
(***************************************************************************)
\* a page break before every card
PageBreakAlways(i) == TRUE

\* if (i > 0 && i % cardsPerPage === 0) pdf.addPage()
PageBreak(i) == i > 0 /\ i % cardsPerPage = 0

Col(indexOnPage) == indexOnPage % 2

\* a row that grows with every card
RowPerCard(indexOnPage) == indexOnPage

\* Math.floor(indexOnPage / 2)
Row(indexOnPage) == indexOnPage \div 2

PositionX(i) == marginLeft + Col(i % cardsPerPage) * (cardW + gapX)

PositionY(i) == marginTop + Row(i % cardsPerPage) * (cardH + gapY)

\* the loop from the top of iteration i to `await html2canvas(el, ...)`
AwaitCanvas(n, i, pages, images) ==
  [n |-> n, i |-> i,
   pages |-> IF PageBreak(i) THEN pages + 1 ELSE pages,
   images |-> images, x |-> PositionX(i), y |-> PositionY(i)]

Document(pages, images) == [pages |-> pages, images |-> images]

\* the button "Download PDF" of the preview: up to the first await, or to
\* pdf.save when there is no card element
GeneratePDF ==
  /\ appState = "PREVIEW"
  /\ BagCardinality(exports) < MaxExports
  /\ IF Len(cards) = 0
     THEN saved' = <<Document(1, <<>>)>> /\ UNCHANGED exports
     ELSE /\ exports' = exports (+) SetToBag({AwaitCanvas(Len(cards), 0, 1, <<>>)})
          /\ UNCHANGED saved
  /\ UNCHANGED <<revision, appState, inputs, cards, error, pc, att, cardTitle, reads>>

\* html2canvas resolves: pdf.addImage(imgData, 'JPEG', x, y, cardW, cardH) on
\* the current page, then the next iteration up to its await, or pdf.save
CanvasRendered ==
  /\ \E e \in BagToSet(exports) :
       LET rest == exports (-) SetToBag({e})
           placed == Append(e.images,
                            [card |-> e.i, page |-> e.pages, x |-> e.x, y |-> e.y,
                             w |-> cardW, h |-> cardH])
       IN IF e.i + 1 < e.n
          THEN /\ exports' =
                    rest (+) SetToBag({AwaitCanvas(e.n, e.i + 1, e.pages, placed)})
               /\ UNCHANGED saved
          ELSE /\ exports' = rest
               /\ saved' = <<Document(e.pages, placed)>>
  /\ UNCHANGED <<revision, appState, inputs, cards, error, pc, att, cardTitle, reads>>

\* html2canvas rejects: generatePDF ends there and nothing is saved
CanvasFails ==
  /\ \E e \in BagToSet(exports) : exports' = exports (-) SetToBag({e})
  /\ UNCHANGED <<revision, appState, inputs, cards, error, pc, att, cardTitle,
                 reads, saved>>

Next ==
  \/ GenerateManual
  \/ DelayElapsed
  \/ GenerateAiFill
  \/ ExpandSettlesAiFill
  \/ GenerateTopic
  \/ ExpandSettlesTopic
  \/ GenerateSettlesTopic
  \/ SetManualText
  \/ SetCardCount
  \/ SetTermsPerCard
  \/ SetUseAiFill
  \/ SetTopic
  \/ SetCategoryLabel
  \/ Opnieuw

Spec == Init /\ [][Next]_vars

\* every awaited promise settles: the 500 ms timer fires and the provider's
\* call returns or raises
Settles ==
  /\ WF_vars(DelayElapsed)
  /\ WF_vars(ExpandSettlesAiFill)
  /\ WF_vars(ExpandSettlesTopic)
  /\ WF_vars(GenerateSettlesTopic)

\* the attempts of the three revisions on every text and topic, with the
\* deck at its default size
NextLive ==
  \/ GenerateManual
  \/ DelayElapsed
  \/ GenerateAiFill
  \/ ExpandSettlesAiFill
  \/ GenerateTopic
  \/ ExpandSettlesTopic
  \/ GenerateSettlesTopic
  \/ SetManualText
  \/ SetTopic
  \/ Opnieuw

SpecLive == Init /\ [][NextLive]_vars /\ Settles

(***************************************************************************)
(* The revision of src/unnamed/part_000 alone.                             *)
(***************************************************************************)
InitAiFill == Init /\ revision = "aiFill"

NextAiFill ==
  \/ GenerateAiFill
  \/ ExpandSettlesAiFill
  \/ SetManualText
  \/ SetCardCount
  \/ SetTermsPerCard
  \/ SetUseAiFill
  \/ SetCategoryLabel
  \/ Opnieuw

SpecAiFill == InitAiFill /\ [][NextAiFill]_vars

(***************************************************************************)
(* The revision of src/unnamed/part_000 started on any raw text: the        *)
(* textarea holds some text of up to MaxTextLen characters and the button  *)
(* is clicked.                                                             *)
(***************************************************************************)
InitRawText ==
  /\ revision = "aiFill"
  /\ appState = "INPUT"
  /\ categoryLabel = ""
  /\ topic = ""
  /\ manualText \in RawTexts
  /\ cardCount = DEFAULT_CARD_COUNT
  /\ termsPerCard = DEFAULT_TERMS_PER_CARD
  /\ useAiFill = TRUE
  /\ cards = <<>>
  /\ error = Null
  /\ pc = "idle"
  /\ att = NoAttempt
  /\ cardTitle = "30 Seconds"
  /\ reads = 0
  /\ exports = EmptyBag
  /\ saved = <<>>

NextRawText ==
  \/ GenerateAiFill
  \/ ExpandSettlesAiFill

SpecRawText == InitRawText /\ [][NextRawText]_vars

(***************************************************************************)
(* The revision of src/unnamed/part_000 with the title, the file upload    *)
(* and the PDF export, started with both sliders at their minimum.         *)
(***************************************************************************)
InitSession ==
  /\ revision = "aiFill"
  /\ appState = "INPUT"
  /\ categoryLabel = ""
  /\ topic = ""
  /\ manualText = <<>>
  /\ cardCount = CardCountMin
  /\ termsPerCard = TermsPerCardMin
  /\ useAiFill = TRUE
  /\ cards = <<>>
  /\ error = Null
  /\ pc = "idle"
  /\ att = NoAttempt
  /\ cardTitle = "30 Seconds"
  /\ reads = 0
  /\ exports = EmptyBag
  /\ saved = <<>>

NextSession ==
  \/ GenerateAiFill
  \/ ExpandSettlesAiFill
  \/ SetManualText
  \/ SetCategoryLabel
  \/ SetCardTitle
  \/ Opnieuw
  \/ HandleFileUpload
  \/ FileLoaded
  \/ FileReadFails
  \/ GeneratePDF
  \/ CanvasRendered
  \/ CanvasFails

SpecSession == InitSession /\ [][NextSession]_vars

(***************************************************************************)
(* The PDF export alone, started on a deck of every size the slider gives. *)
(***************************************************************************)
PdfCardCounts ==
  { c \in CardCountMin..CardCountMax : (c - CardCountMin) % CardCountStep = 0 }

\* a deck of c cards from a typed list long enough for it
DeckOf(c) ==
  CreateCards(CycleTerms(ParseTerms(ListText(CardCountMin * DEFAULT_TERMS_PER_CARD)),
                         c * DEFAULT_TERMS_PER_CARD),
              c, DEFAULT_TERMS_PER_CARD, ResolveCategory("", ""))

InitPdf ==
  /\ revision = "aiFill"
  /\ appState = "PREVIEW"
  /\ categoryLabel = ""
  /\ topic = ""
  /\ manualText = <<>>
  /\ cardCount \in PdfCardCounts
  /\ termsPerCard = DEFAULT_TERMS_PER_CARD
  /\ useAiFill = TRUE
  /\ cards = DeckOf(cardCount)
  /\ error = Null
  /\ pc = "idle"
  /\ att = NoAttempt
  /\ cardTitle = "30 Seconds"
  /\ reads = 0
  /\ exports = EmptyBag
  /\ saved = <<>>

NextPdf ==
  \/ GeneratePDF
  \/ CanvasRendered
  \/ CanvasFails

SpecPdf == InitPdf /\ [][NextPdf]_vars

(***************************************************************************)
(* Properties.                                                             *)
(***************************************************************************)
Finished(a) == a.result \in {"ok", "failed"}

\* every term of every card of a deck
DeckTerms(deck) ==
  UNION { { deck[i].terms[j] : j \in 1..Len(deck[i].terms) } : i \in 1..Len(deck) }

\* the demand of an attempt, cards times terms per card
Demand(a) == a.cardCount * a.termsPerCard

\* C1: when an attempt has succeeded, the stored deck has exactly as many
\* cards as the attempt's cardCount and every card has exactly the attempt's
\* termsPerCard terms.
C1_DeckShape ==
  att.result = "ok" =>
    /\ Len(cards) = att.cardCount
    /\ \A i \in 1..Len(cards) : Len(cards[i].terms) = att.termsPerCard

\* an attempt succeeded on a pool the provider had to fill up
C1_Witness ==
  /\ att.result = "ok"
  /\ revision = "aiFill"
  /\ att.answer.kind = "list"
  /\ Len(att.parsed) < Demand(att)
  /\ Len(cards) = DEFAULT_CARD_COUNT

\* C2: a step in which an attempt ends by a failure leaves the mode INPUT and
\* a message that is not empty, and leaves the stored deck as it was: nothing
\* built during the failed attempt is shown.
C2_FailureIsAtomic ==
  [][(att'.result = "failed" /\ att' # att) =>
       /\ appState' = "INPUT"
       /\ error' # Null
       /\ error'[1].text # ""
       /\ cards' = cards]_vars

\* an attempt has failed after the provider's answer, while a deck of an
\* earlier attempt is stored
C2_Witness ==
  /\ att.result = "failed"
  /\ att.calls > 0
  /\ cards # <<>>
  /\ appState = "INPUT"

\* a text without a term: nothing but white space, commas and newlines
HasNoTerm(text) == \A i \in 1..Len(text) : text[i] \in {" ", ",", "\n"}

\* the error each revision throws when nothing was typed
EmptyInputError ==
  CASE revision = "manual" -> ManualEmptyError
    [] revision = "topic" -> TopicEmptyError
    [] OTHER -> AiFillEmptyError

\* C3 as stated: a text without a term makes the attempt fail with the
\* empty-input error whatever the configuration, the topic included.
C3_EmptyInputAlwaysFails ==
  (Finished(att) /\ HasNoTerm(att.text)) =>
    /\ att.result = "failed"
    /\ att.thrown = <<EmptyInputError>>

\* C3 as amended: a text without a term makes the attempt fail with the
\* empty-input error, without a call of the provider, whenever no topic is
\* given; with a topic the topic revision asks the provider for a list.
C3_EmptyInputFails ==
  (att.result # "none" /\ HasNoTerm(att.text) /\ att.topic = "") =>
    /\ att.calls = 0
    /\ Finished(att) =>
         /\ att.result = "failed"
         /\ att.thrown = <<EmptyInputError>>
         /\ error = <<EmptyInputError>>
         /\ appState = "INPUT"

\* white space and delimiters were typed with the auto fill on, and the
\* attempt has failed
C3_Witness ==
  /\ att.result = "failed"
  /\ att.text # <<>>
  /\ HasNoTerm(att.text)
  /\ att.useAiFill
  /\ att.topic = ""

\* the error the manual and the aiFill revision throw for a pool of `have`
\* terms that is too short
InsufficientTermsError(a, have) ==
  IF revision = "manual"
  THEN ManualTooFewError(a.cardCount, Demand(a), a.termsPerCard, have)
  ELSE AiFillTooFewError(Demand(a), have, a.useAiFill)

\* C4: an attempt whose pool, after expansion or cycling, is not empty and
\* still shorter than the demand ends by the insufficient-terms error, which
\* reports the demand and the length of the pool; a deck is assembled only
\* from a pool that has at least as many terms as the demand.
C4_ShortPoolFails ==
  (Finished(att) /\ 0 < Len(att.terms) /\ Len(att.terms) < Demand(att)) =>
    /\ att.result = "failed"
    /\ att.thrown = <<InsufficientTermsError(att, Len(att.terms))>>

\* C5: no card of a deck that an attempt has produced holds the placeholder.
C5_NoPlaceholder ==
  att.result = "ok" => Placeholder \notin DeckTerms(cards)

\* the error the user is shown when the provider's answer to expandTermList
\* left the pool too short
TooFewAfterCall(a) == AiFillTooFewError(Demand(a), Len(a.parsed), a.useAiFill)

C7_FailedCallKeepsPool ==
  (Finished(att) /\ att.answer.kind = "threw") =>
    /\ att.terms = att.parsed
    /\ att.result = "failed"
    /\ error = <<Err("Te weinig begrippen. Nodig: {}. Je hebt er: {}. De AI kon niet genoeg aanvullen.",
                     <<Demand(att), Len(att.parsed)>>)>>
    /\ appState = "INPUT"

\* the auto fill was on, the pool was short, the call failed
C7_Witness ==
  /\ att.result = "failed"
  /\ att.useAiFill
  /\ att.answer.kind = "threw"
  /\ 0 < Len(att.parsed)
  /\ Len(att.parsed) < Demand(att)

\* C8: an attempt whose parsed pool has at least as many terms as the demand
\* makes no call of the provider, is never suspended on one, and hands the
\* parsed pool itself to the assembler.
C8_EnoughTermsNoCall ==
  (att.result # "none" /\ Len(att.parsed) >= Demand(att)) =>
    /\ att.calls = 0
    /\ pc \notin {"awaitExpand", "awaitGenerate"}
    /\ att.terms = att.parsed
    /\ Finished(att) => att.result = "ok"

\* enough terms were typed with the auto fill on, or with a topic given, and
\* the attempt has succeeded
C8_Witness ==
  /\ att.result = "ok"
  /\ att.useAiFill \/ att.topic # ""
  /\ Len(att.parsed) >= Demand(att)
  /\ att.parsed # <<>>

\* the terms an attempt has added to its parsed pool
AddedTerms(a) == SubSeq(a.terms, Len(a.parsed) + 1, Len(a.terms))

LowerSet(ts) == { ToLowerCase(ts[i]) : i \in 1..Len(ts) }

\* C9: after the provider's list is merged, no added term equals a term of the
\* existing pool ignoring case.
C9_CaseInsensitiveMerge ==
  (Finished(att) /\ att.answer.kind = "list" /\ att.parsed # <<>>) =>
    /\ SubSeq(att.terms, 1, Len(att.parsed)) = att.parsed
    /\ LowerSet(AddedTerms(att)) \cap LowerSet(att.parsed) = {}

\* the terms of a sequence are pairwise different
Distinct(ts) == \A i, j \in 1..Len(ts) : ts[i] = ts[j] => i = j

\* the cards' terms in deck order
RECURSIVE Flatten(_)
Flatten(deck) ==
  IF deck = <<>> THEN <<>> ELSE Head(deck).terms \o Flatten(Tail(deck))

\* how often t occurs in ts
Count(ts, t) == Cardinality({ i \in 1..Len(ts) : ts[i] = t })

\* C10: when the pool has k terms, 0 < k < demand, and the provider answers
\* with demand - k terms, pairwise different and none of them in the pool
\* ignoring case, the merged pool is the parsed pool followed by the answer,
\* the attempt succeeds, no card holds the placeholder, and every term is on
\* the cards exactly as often as it is in the merged pool.
C10_ExactFill ==
  (/\ Finished(att)
   /\ att.answer.kind = "list"
   /\ att.parsed # <<>>
   /\ Len(att.answer.terms) = Demand(att) - Len(att.parsed)
   /\ Distinct(att.answer.terms)
   /\ LowerSet(att.answer.terms) \cap LowerSet(att.parsed) = {}) =>
    /\ att.terms = att.parsed \o att.answer.terms
    /\ Len(att.terms) = Demand(att)
    /\ att.result = "ok"
    /\ Placeholder \notin DeckTerms(cards)
    /\ \A t \in DeckTerms(cards) : Count(Flatten(cards), t) = Count(att.terms, t)
    /\ DeckTerms(cards) = { att.terms[i] : i \in 1..Len(att.terms) }

\* the auto fill was on and the provider's answer filled the pool exactly
C10_Witness ==
  /\ att.result = "ok"
  /\ att.useAiFill
  /\ att.answer.kind = "list"
  /\ 0 < Len(att.parsed)
  /\ Len(att.answer.terms) = Demand(att) - Len(att.parsed)
  /\ Distinct(att.answer.terms)
  /\ LowerSet(att.answer.terms) \cap LowerSet(att.parsed) = {}

\* the values of a sequence of terms
Values(ts) == { ts[i] : i \in 1..Len(ts) }

\* no provider is asked: the manual revision has none, the topic revision asks
\* only when a topic is given, the aiFill revision only when the box is ticked
AugmentationDisabled(a) ==
  CASE revision = "manual" -> TRUE
    [] revision = "topic" -> a.topic = ""
    [] OTHER -> ~a.useAiFill

\* the parsed pool of an attempt is not empty and shorter than the demand
ShortPool(a) == 0 < Len(a.parsed) /\ Len(a.parsed) < Demand(a)

C12_CycleRepeatsPool ==
  (revision = "topic" /\ Finished(att) /\ ShortPool(att) /\ att.topic = "") =>
    LET L == Len(att.parsed)
    IN /\ Len(att.terms) >= Demand(att)
       /\ Len(att.terms) % L = 0
       /\ Len(att.terms) - L < Demand(att)
       /\ \A j \in 0..(Len(att.terms) - 1) :
            att.terms[j + 1] = att.parsed[(j % L) + 1]

\* a pool whose length does not divide the demand was cycled past the demand
C12_Witness ==
  /\ revision = "topic"
  /\ att.result = "ok"
  /\ att.topic = ""
  /\ ShortPool(att)
  /\ Demand(att) % Len(att.parsed) # 0
  /\ Len(att.terms) > Demand(att)
  /\ Values(att.parsed) # {att.parsed[1]}

\* C13: card i (from 0) of a deck an attempt has produced holds exactly the
\* elements i*termsPerCard .. (i+1)*termsPerCard - 1 of the shuffled sequence,
\* in that order, and carries the id i, so that the deck is determined by the
\* shuffled sequence, cardCount and termsPerCard.
C13_PartitionByChunks ==
  att.result = "ok" =>
    /\ Len(cards) = att.cardCount
    /\ \A i \in 0..(att.cardCount - 1) :
         /\ cards[i + 1].id = i
         /\ Len(cards[i + 1].terms) = att.termsPerCard
         /\ \A j \in 0..(att.termsPerCard - 1) :
              cards[i + 1].terms[j + 1] = att.shuffled[i * att.termsPerCard + j + 1]

\* a deck of several cards was dealt from a shuffled sequence that is not in
\* the pool's order
C13_Witness ==
  /\ att.result = "ok"
  /\ att.shuffled # att.terms
  /\ Len(cards) > 1
  /\ att.termsPerCard # DEFAULT_TERMS_PER_CARD

\* C14: an attempt whose pool has more terms than the demand succeeds; the
\* cards' terms in deck order are the first cardCount * termsPerCard elements
\* of the shuffled sequence, and when the pool's terms are pairwise different
\* no term of the remaining tail is on a card.
C14_SurplusDropped ==
  (Finished(att) /\ Len(att.terms) > Demand(att)) =>
    /\ att.result = "ok"
    /\ Flatten(cards) = SubSeq(att.shuffled, 1, Demand(att))
    /\ Distinct(att.terms) =>
         Values(SubSeq(att.shuffled, Demand(att) + 1, Len(att.shuffled)))
           \cap DeckTerms(cards) = {}

\* more different terms were typed than the deck takes, and the last typed
\* term was shuffled onto a card
C14_Witness ==
  /\ att.result = "ok"
  /\ Len(att.parsed) > Demand(att)
  /\ Distinct(att.parsed)
  /\ att.parsed[Len(att.parsed)] \in DeckTerms(cards)

RECURSIVE DropSpaces(_)
DropSpaces(s) ==
  IF s # <<>> /\ IsSpace(Head(s)) THEN DropSpaces(Tail(s)) ELSE s

\* s without the white space at both ends
Stripped(s) == Reverse(DropSpaces(Reverse(DropSpaces(s))))

\* the piece read so far, if anything but white space is in it
Piece(cur) == IF Stripped(cur) = <<>> THEN <<>> ELSE <<Stripped(cur)>>

\* the terms of a text read character by character: a comma or a newline
\* ends the piece read so far
RECURSIVE ReadTerms(_, _)
ReadTerms(text, cur) ==
  IF text = <<>> THEN Piece(cur)
  ELSE IF IsDelim(Head(text))
  THEN Piece(cur) \o ReadTerms(Tail(text), <<>>)
  ELSE ReadTerms(Tail(text), Append(cur, Head(text)))

\* C16: for every raw text the parsed pool is the sequence, in source order,
\* of the pieces between runs of commas and newlines, each trimmed, without
\* the empty ones; every term is non-empty, neither starts nor ends with
\* white space and holds no comma and no newline.
C16_ResolverParses ==
  att.result # "none" =>
    /\ att.parsed = ReadTerms(att.text, <<>>)
    /\ \A k \in 1..Len(att.parsed) :
         LET t == att.parsed[k]
         IN /\ Len(t) > 0
            /\ ~IsSpace(t[1])
            /\ ~IsSpace(t[Len(t)])
            /\ \A i \in 1..Len(t) : ~IsDelim(t[i])

\* a text that starts with white space and ends with a delimiter gave one term
C16_Witness ==
  /\ att.result # "none"
  /\ Len(att.text) = MaxTextLen
  /\ IsSpace(att.text[1])
  /\ IsDelim(att.text[Len(att.text)])
  /\ Len(att.parsed) = 1

\* C17 as stated: no two elements of the parsed pool are equal.
C17_ResolverDeduplicates ==
  att.result # "none" => Distinct(att.parsed)

\* C17 as amended: the resolver removes nothing but empty pieces: every
\* non-empty value is in the parsed pool as often as it is among the trimmed
\* pieces of the text, so a term typed twice is in the pool twice.
C17_ResolverKeepsRepeats ==
  att.result # "none" =>
    LET pieces == MapTrim(Split(att.text))
    IN /\ \A t \in Values(pieces) \ {<<>>} :
            Count(att.parsed, t) = Count(pieces, t)
       /\ Len(att.parsed) = Len(pieces) - Count(pieces, <<>>)

\* a term was typed twice and is in the parsed pool twice
C17_Witness ==
  /\ att.result # "none"
  /\ Len(att.parsed) = 2
  /\ att.parsed[1] = att.parsed[2]

\* C18 as stated: every card of a deck an attempt has produced carries the
\* category label the attempt started with, or 'Gemengd' when it was empty.
C18_CategoryLabelOrMixed ==
  att.result = "ok" =>
    \A i \in 1..Len(cards) :
      cards[i].category =
        (IF att.categoryLabel # "" THEN att.categoryLabel ELSE "Gemengd")

\* C18 as amended: every card of a deck an attempt has produced carries the
\* same category: the category label the attempt started with if it is not
\* empty, otherwise, in the topic revision, the topic if it is not empty,
\* otherwise 'Gemengd'.
C18_CategoryLabelTopicOrMixed ==
  att.result = "ok" =>
    \A i \in 1..Len(cards) :
      cards[i].category =
        (IF att.categoryLabel # "" THEN att.categoryLabel
         ELSE IF revision = "topic" /\ att.topic # "" THEN att.topic
         ELSE "Gemengd")

\* a deck was made with a label and a topic, and carries the label
C18_Witness ==
  /\ att.result = "ok"
  /\ att.categoryLabel # ""
  /\ att.topic # ""
  /\ cards # <<>>
  /\ cards[1].category = att.categoryLabel

\* an attempt waits for the provider's answer
Awaiting(p) == p \in {"awaitExpand", "awaitGenerate"}

\* C19: an attempt calls the provider at most once: a call is made only by the
\* step that starts an attempt, from the input view, and is the attempt's
\* only call; the step in which the answer arrives, whatever the answer,
\* ends the attempt without another call.
C19_AtMostOneCall ==
  [][/\ att'.calls <= 1
     /\ Awaiting(pc') => (pc = "idle" /\ appState = "INPUT" /\ att'.calls = 1)
     /\ Awaiting(pc) =>
          (pc' = "idle" /\ Finished(att') /\ att'.calls = att.calls)]_vars

\* the provider answered with too few terms and the attempt failed after its
\* one call
C19_Witness ==
  /\ att.result = "failed"
  /\ att.answer.kind = "list"
  /\ att.calls = 1
  /\ pc = "idle"

\* the values an attempt read when it started
Closure(a) ==
  <<a.text, a.cardCount, a.termsPerCard, a.useAiFill, a.categoryLabel, a.topic>>

\* C20: at most one attempt is under way: an attempt starts in the input view
\* only and never while another one is under way; the mode is GENERATING
\* exactly while an attempt is under way, and the only step possible then is
\* the end of that attempt.
C20_OneAttemptInFlight ==
  [][/\ ~att'.overlaps
     /\ (att'.result = "running") <=> (appState' = "GENERATING")
     /\ (att'.result # "none" /\ att.result # "running") => appState = "INPUT"
     /\ appState = "GENERATING" =>
          (Finished(att') /\ Closure(att') = Closure(att))]_vars

\* an attempt waits for the provider while the deck of an earlier one is stored
C20_Witness ==
  /\ appState = "GENERATING"
  /\ att.result = "running"
  /\ att.calls = 1
  /\ cards # <<>>

\* the deck the card loop builds from what an attempt read and shuffled
DeckFrom(a) ==
  CreateCards(a.shuffled, a.cardCount, a.termsPerCard,
              ResolveCategory(a.categoryLabel, a.topic))

\* the pool, the outcome and the deck of an attempt of the aiFill revision
\* follow from the values it read when it started and the provider's answer
FromClosure(a, deck) ==
  /\ a.result # "none" => a.parsed = ParseTerms(a.text)
  /\ Finished(a) =>
       /\ a.terms = (IF a.calls = 0 THEN a.parsed
                     ELSE ExpandTermListAiFill(a.parsed, a.answer))
       /\ (a.result = "ok") <=> (a.parsed # <<>> /\ Len(a.terms) >= Demand(a))
  /\ a.result = "ok" => deck = DeckFrom(a)

\* C21: the pool, the validation outcome and the deck of an attempt follow
\* from the text, cardCount, termsPerCard, switch and category it read when it
\* started; a text that lands in the textarea while the attempt is under way
\* changes neither the attempt nor the stored deck, and the step that ends
\* the attempt still works on the values read at the start.
C21_AttemptUsesStartValues ==
  [][/\ FromClosure(att', cards')
     /\ att.result = "running" =>
          (Closure(att') = Closure(att) /\ att'.parsed = att.parsed)
     /\ (att.result = "running" /\ manualText' # manualText) =>
          (att' = att /\ cards' = cards /\ appState' = appState)]_vars

\* a file's text landed during the call of the provider and the attempt has
\* succeeded on the text it had read
C21_Witness ==
  /\ att.result = "ok"
  /\ att.calls = 1
  /\ att.text # manualText
  /\ ParseTerms(manualText) # att.parsed
  /\ appState = "PREVIEW"

\* C22: in the preview no attempt is under way and the stored deck is a
\* complete one that fits the current settings: it has cardCount cards and
\* every card has termsPerCard terms; right after the attempt it is the deck
\* built from that attempt's shuffled terms.
C22_PreviewMatchesSettings ==
  appState = "PREVIEW" =>
    /\ pc = "idle"
    /\ att.result # "running"
    /\ Len(cards) = cardCount
    /\ \A i \in 1..Len(cards) : Len(cards[i].terms) = termsPerCard
    /\ att.result = "ok" => cards = DeckFrom(att)

\* the preview shows a deck of another size than the default one, after the
\* category was edited there
C22_Witness ==
  /\ appState = "PREVIEW"
  /\ att.result = "none"
  /\ cardCount # DEFAULT_CARD_COUNT
  /\ termsPerCard # DEFAULT_TERMS_PER_CARD
  /\ Len(cards) = cardCount

\* C23: the stored deck changes only in the step that ends a successful
\* attempt, which stores that attempt's deck and shows the preview; every
\* other step (title, category, 'Opnieuw', a file upload and its completion,
\* a failed attempt, the PDF export) leaves it as it is.
C23_CardsReadOnly ==
  [][/\ cards' # cards =>
          (att'.result = "ok" /\ att' # att /\ appState' = "PREVIEW"
           /\ cards' = DeckFrom(att'))
     /\ (appState = "PREVIEW" \/ att'.result # "ok") => cards' = cards]_vars

\* a deck is still stored after an export, a change of the title, 'Opnieuw',
\* an upload and a failed attempt
C23_Witness ==
  /\ cards # <<>>
  /\ saved # <<>>
  /\ cardTitle # "30 Seconds"
  /\ appState = "INPUT"
  /\ att.result = "failed"
  /\ att.text # <<>>

\* C24: cardCount is one of 4, 8, .., 40 and termsPerCard one of 3..8, so both
\* are at least 1, and so are the values and the demand of every attempt.
C24_SettingsPositive ==
  /\ cardCount >= 1
  /\ termsPerCard >= 1
  /\ cardCount \in { 4 * k : k \in 1..10 }
  /\ termsPerCard \in 3..8
  /\ att.result # "none" =>
       (att.cardCount = cardCount /\ att.termsPerCard = termsPerCard
        /\ Demand(att) >= 1)

\* an attempt has succeeded with both sliders at their minimum
C24_Witness ==
  /\ cardCount = CardCountMin
  /\ termsPerCard = TermsPerCardMin
  /\ att.result = "ok"
  /\ Demand(att) = CardCountMin * TermsPerCardMin

\* C25 as stated: the mode changes only from INPUT to GENERATING, from
\* GENERATING to PREVIEW or INPUT, and from PREVIEW to INPUT.
C25_ModeTransitions ==
  [][appState' # appState =>
       <<appState, appState'>> \in
         { <<"INPUT", "GENERATING">>, <<"GENERATING", "PREVIEW">>,
           <<"GENERATING", "INPUT">>, <<"PREVIEW", "INPUT">> }]_vars

\* C25 as amended: besides those four transitions the mode goes from INPUT
\* straight to PREVIEW when an attempt succeeds without awaiting anything (no
\* call of the provider, not the manual revision with its delay); PREVIEW is
\* entered only by the step that ends a successful attempt and is left only
\* for INPUT, and GENERATING is entered only from INPUT.
C25_ModeTransitionsWithDirectPreview ==
  [][appState' # appState =>
       /\ <<appState, appState'>> \in
            { <<"INPUT", "GENERATING">>, <<"GENERATING", "PREVIEW">>,
              <<"GENERATING", "INPUT">>, <<"PREVIEW", "INPUT">>,
              <<"INPUT", "PREVIEW">> }
       /\ <<appState, appState'>> = <<"INPUT", "PREVIEW">> =>
            (revision # "manual" /\ att'.calls = 0)
       /\ appState' = "PREVIEW" => att'.result = "ok"
       /\ appState' = "GENERATING" => att'.result = "running"]_vars

\* the preview was reached by an attempt that made no call
C25_Witness ==
  /\ appState = "PREVIEW"
  /\ att.result = "ok"
  /\ att.calls = 0
  /\ revision = "aiFill"

\* C26: when every awaited promise settles, the mode GENERATING is always
\* followed by PREVIEW or INPUT, and the mode is never GENERATING once the
\* attempt has ended.
C26_AttemptEnds ==
  /\ (appState = "GENERATING") ~> (appState \in {"PREVIEW", "INPUT"})
  /\ [](Finished(att) => appState \in {"PREVIEW", "INPUT"})

\* an attempt that waited for a list on a topic has ended in the preview
C26_Witness ==
  /\ revision = "topic"
  /\ att.parsed = <<>>
  /\ att.calls = 1
  /\ att.result = "ok"
  /\ appState = "PREVIEW"

\* C27: while the mode is GENERATING or PREVIEW no error message is stored.
C27_NoErrorWithDeck ==
  appState \in {"GENERATING", "PREVIEW"} => error = Null

\* an attempt is under way after a deck was made: no message is stored
C27_Witness ==
  /\ appState = "GENERATING"
  /\ cards # <<>>
  /\ revision = "manual"
  /\ error = Null

\* C28: when the terms of the pool given to the assembler are pairwise
\* different, no term of the pool is on the cards more than once, and a pool
\* that covers the demand gives cards whose terms are all different.
C28_DistinctPoolDistinctDeck ==
  (att.result = "ok" /\ Distinct(att.terms)) =>
    /\ \A t \in Values(att.terms) : Count(Flatten(cards), t) <= 1
    /\ Len(att.terms) >= Demand(att) => Distinct(Flatten(cards))

\* a pool of different terms, more than the demand, was shuffled and dealt
C28_Witness ==
  /\ att.result = "ok"
  /\ Distinct(att.terms)
  /\ Len(att.terms) > Demand(att)
  /\ att.shuffled # att.terms
  /\ Len(cards) > 1

\* the documents there are: those under construction and the one saved last
Documents ==
  { Document(e.pages, e.images) : e \in BagToSet(exports) }
  \cup { saved[k] : k \in 1..Len(saved) }

\* C29: in every document the k-th image is card k - 1 = i of the deck, on
\* page floor(i / 8) (pages counted from 1 in the document), in column
\* (i mod 8) mod 2 and row floor((i mod 8) / 2) of the grid; no two images
\* share a page and a position; an export that waits for card i has added
\* floor(i / 8) pages to the first one, and a saved document of n >= 1 cards
\* has all the n cards of the deck on ceil(n / 8) pages.
C29_PdfGrid ==
  /\ \A d \in Documents :
       /\ \A k \in 1..Len(d.images) :
            LET i == k - 1
                im == d.images[k]
            IN /\ im.card = i
               /\ im.page = (i \div 8) + 1
               /\ im.x = 10 + ((i % 8) % 2) * 100
               /\ im.y = 20 + ((i % 8) \div 2) * 60
       /\ \A k1, k2 \in 1..Len(d.images) :
            (/\ d.images[k1].page = d.images[k2].page
             /\ d.images[k1].x = d.images[k2].x
             /\ d.images[k1].y = d.images[k2].y) => k1 = k2
  /\ \A e \in BagToSet(exports) :
       /\ e.i = Len(e.images)
       /\ e.i < e.n
       /\ e.pages = (e.i \div 8) + 1
  /\ \A k \in 1..Len(saved) :
       /\ Len(saved[k].images) = Len(cards)
       /\ Len(cards) >= 1 => saved[k].pages = (Len(cards) + 7) \div 8

\* a deck of 20 cards was saved on three pages
C29_Witness ==
  /\ saved # <<>>
  /\ Len(cards) = 20
  /\ Len(saved[1].images) = 20
  /\ saved[1].pages = 3

\* C30: every image is a rectangle of 90 mm by 50 mm at x = 10 or 110 and
\* y = 20, 80, 140 or 200, inside the page of 210 mm by 297 mm, and two
\* images on the same page do not overlap.
C30_CardsFitPage ==
  \A d \in Documents :
    /\ \A k \in 1..Len(d.images) :
         LET im == d.images[k]
         IN /\ im.w = 90 /\ im.h = 50
            /\ im.x \in {10, 110}
            /\ im.y \in {20, 80, 140, 200}
            /\ 0 <= im.x /\ im.x + im.w <= 210
            /\ 0 <= im.y /\ im.y + im.h <= 297
    /\ \A k1, k2 \in 1..Len(d.images) :
         (k1 # k2 /\ d.images[k1].page = d.images[k2].page) =>
           LET a == d.images[k1]
               b == d.images[k2]
           IN \/ a.x + a.w <= b.x
              \/ b.x + b.w <= a.x
              \/ a.y + a.h <= b.y
              \/ b.y + b.h <= a.y

\* a saved document whose first page is full: the eighth card is at the
\* bottom right
C30_Witness ==
  /\ saved # <<>>
  /\ Len(saved[1].images) > 8
  /\ saved[1].images[8].x = 110
  /\ saved[1].images[8].y = 200
  /\ saved[1].images[9].page = 2

====
